---- MODULE Spec2Model ----
(***************************************************************************)
(* A model of srt-fixer (src/index.ts): the overlap resolver assignSlots,  *)
(* the serializer serializeSrt and the batch loop of main.                 *)
(*                                                                         *)
(* A text line is a sequence of one-character strings, so that the regular *)
(* expressions of the source act on characters.  A position tag is the     *)
(* four characters \anD; the absent tag (null / undefined) is <<>>.        *)
(***************************************************************************)
EXTENDS Integers, Sequences, FiniteSets, TLC

\* ------------------------------------------------------------- bounds
\* Times of the timing family range over 0..MaxTime.
MaxTime == 2
\* Longest block list of the timing and text families.
MaxBlocks == 3
\* Longest block list of the crowded family (more than five concurrent blocks).
MaxCrowd == 6
\* Longest batch of input files given to main.
MaxFiles == 3

\* ------------------------------------------------------------- text
Digits == {"1", "2", "3", "4", "5", "6", "7", "8", "9"}

\* The tag string "\\anD" of the source.
Tag(d) == <<"\\", "a", "n", d>>

NoTag == <<>>

POSITION_TAGS == <<Tag("2"), Tag("8"), Tag("5"), Tag("4"), Tag("6")>>

DEFAULT_TAG == Tag("2")

\* `{${tag}}`
Marker(tag) == <<"{">> \o tag \o <<"}">>

\* Whether /^\{\\an[1-9]\}/ matches text.
MatchesLeadingTag(text) ==
    /\ Len(text) >= 6
    /\ text[1] = "{"
    /\ text[2] = "\\"
    /\ text[3] = "a"
    /\ text[4] = "n"
    /\ text[5] \in Digits
    /\ text[6] = "}"

DropChars(text, n) == SubSeq(text, n + 1, Len(text))

\* extractLeadingTag: the capture group of /^\{(\\an[1-9])\}/, or null.
extractLeadingTag(text) ==
    IF MatchesLeadingTag(text) THEN SubSeq(text, 2, 5) ELSE NoTag

\* stripAllTags: text.replace(/\{\\an[1-9]\}/g, ""), one left-to-right pass
\* over the non-overlapping matches; the result is not scanned again.
RECURSIVE stripAllTags(_)
stripAllTags(text) ==
    IF text = <<>> THEN <<>>
    ELSE IF MatchesLeadingTag(text) THEN stripAllTags(DropChars(text, 6))
    ELSE <<Head(text)>> \o stripAllTags(Tail(text))

\* replaceLeadingTag that replaces nothing.
replaceLeadingTagKeep(text) == text

\* firstLine.replace(/^\{\\an[1-9]\}/, "")
replaceLeadingTag(text) ==
    IF MatchesLeadingTag(text) THEN DropChars(text, 6) ELSE text

\* firstLine.startsWith("{")
startsWithBrace(text) == Len(text) >= 1 /\ text[1] = "{"

\* ------------------------------------------------------------- blocks
\* A SubtitleBlock as a parser hands it to assignSlots: assignedTag,
\* existingTag and keepExisting are still undefined.
NewBlock(order, startMs, endMs, lines) ==
    [originalOrder |-> order, startMs |-> startMs, endMs |-> endMs,
     lines |-> lines, assignedTag |-> NoTag, existingTag |-> NoTag,
     keepExisting |-> FALSE]

\* Array.prototype.sort with a comparator, given as the function cmp on
\* pairs of elements: a stable sort.  x goes after every element that does
\* not compare greater than it.
InsertBy(cmp, sorted, x) ==
    LET p == Cardinality({q \in 1..Len(sorted) : cmp[sorted[q], x] <= 0})
    IN  SubSeq(sorted, 1, p) \o <<x>> \o SubSeq(sorted, p + 1, Len(sorted))

RECURSIVE StableSort(_, _)
StableSort(cmp, s) ==
    IF s = <<>> THEN <<>>
    ELSE InsertBy(cmp, StableSort(cmp, SubSeq(s, 1, Len(s) - 1)), s[Len(s)])

\* The comparator of the sweep order: startMs, then endMs.
assignCmp(a, b) ==
    IF a.startMs # b.startMs THEN a.startMs - b.startMs
    ELSE a.endMs - b.endMs

\* serializeCmp with the operands of the last comparison exchanged.
serializeCmpReversedTie(a, b) ==
    IF a.startMs # b.startMs THEN a.startMs - b.startMs
    ELSE IF a.endMs # b.endMs THEN a.endMs - b.endMs
    ELSE b.originalOrder - a.originalOrder

\* The comparator of the output order: startMs, endMs, originalOrder.
serializeCmp(a, b) ==
    IF a.startMs # b.startMs THEN a.startMs - b.startMs
    ELSE IF a.endMs # b.endMs THEN a.endMs - b.endMs
    ELSE a.originalOrder - b.originalOrder

\* ------------------------------------------------------------- assignSlots
\* The sorted copy of line 454, as indexes into the block list: the copy
\* holds the same objects.
sweepOrder(bs) ==
    StableSort([a \in DOMAIN bs, b \in DOMAIN bs |-> assignCmp(bs[a], bs[b])],
               [b \in DOMAIN bs |-> b])

\* expired with > for >=: an entry ending at T outlives a block starting at T.
expiredStrict(startMs, entry) == startMs > entry.endMs

\* block.startMs >= active[i].endMs: the entry is spliced out.
expired(startMs, entry) == startMs >= entry.endMs

\* The eviction loop, from the last entry down to the first.
RECURSIVE evict(_, _, _)
evict(act, idx, startMs) ==
    IF idx < 1 THEN act
    ELSE evict(IF expired(startMs, act[idx])
               THEN SubSeq(act, 1, idx - 1) \o SubSeq(act, idx + 1, Len(act))
               ELSE act,
               idx - 1, startMs)

\* new Set(active.map((entry) => entry.tag))
usedTags(act) == {act[e].tag : e \in DOMAIN act}

\* Palette positions whose tag is not in use.
freeSlots(used) == {p \in DOMAIN POSITION_TAGS : POSITION_TAGS[p] \notin used}

\* chooseTag with the test of the scan inverted: the first tag in use.
chooseTagInverted(used) ==
    LET busy == DOMAIN POSITION_TAGS \ freeSlots(used)
    IN  IF busy # {}
        THEN POSITION_TAGS[CHOOSE p \in busy : \A q \in busy : p <= q]
        ELSE POSITION_TAGS[Len(POSITION_TAGS)]

\* chooseTag falling back to the first palette entry.
chooseTagFallbackFirst(used) ==
    LET free == freeSlots(used)
    IN  IF free # {}
        THEN POSITION_TAGS[CHOOSE p \in free : \A q \in free : p <= q]
        ELSE POSITION_TAGS[1]

\* chooseTag without the fallback: chosenTag stays undefined.
chooseTagNoFallback(used) ==
    LET free == freeSlots(used)
    IN  IF free # {}
        THEN POSITION_TAGS[CHOOSE p \in free : \A q \in free : p <= q]
        ELSE NoTag

\* The palette scan and its fallback to the last palette entry.
chooseTag(used) ==
    LET free == freeSlots(used)
    IN  IF free # {}
        THEN POSITION_TAGS[CHOOSE p \in free : \A q \in free : p <= q]
        ELSE POSITION_TAGS[Len(POSITION_TAGS)]

\* Whether the block is kept verbatim (line 476).
keepsExisting(opts, existingTag) ==
    ~opts.clean /\ opts.ignoreExisting /\ existingTag # NoTag

\* One iteration of the sweep over block, with act the active list after
\* the eviction: the block as the iteration leaves it.
sweepBlock(block, act, opts) ==
    LET firstLine   == IF Len(block.lines) >= 1 THEN block.lines[1] ELSE <<>>
        existingTag == extractLeadingTag(firstLine)
        lines1      == IF opts.clean
                       THEN [l \in DOMAIN block.lines |-> stripAllTags(block.lines[l])]
                       ELSE block.lines
        b1          == [block EXCEPT !.existingTag = existingTag, !.lines = lines1]
    IN  IF keepsExisting(opts, existingTag)
        THEN [b1 EXCEPT !.assignedTag = existingTag, !.keepExisting = TRUE]
        ELSE [b1 EXCEPT !.assignedTag = chooseTag(usedTags(act))]

\* pushActive that leaves out the push of line 479 for a kept block.
pushActiveUnlessKept(act, block) ==
    IF block.keepExisting THEN act
    ELSE Append(act, [endMs |-> block.endMs, tag |-> block.assignedTag])

\* active.push({ endMs: block.endMs, tag }) of lines 479 and 496.
pushActive(act, block) ==
    Append(act, [endMs |-> block.endMs, tag |-> block.assignedTag])

\* rewriteFirstLine that prepends the marker without replacing an old one.
rewriteFirstLinePrepend(firstLine, tag, opts) ==
    IF opts.omitDefault /\ tag = DEFAULT_TAG THEN replaceLeadingTag(firstLine)
    ELSE Marker(tag) \o firstLine

\* The first text line as the second loop writes it.
rewriteFirstLine(firstLine, tag, opts) ==
    IF opts.omitDefault /\ tag = DEFAULT_TAG THEN replaceLeadingTag(firstLine)
    ELSE IF startsWithBrace(firstLine)
         THEN Marker(tag) \o replaceLeadingTag(firstLine)
         ELSE Marker(tag) \o firstLine

\* rewriteBlock without the keepExisting test of line 501.
rewriteBlockIgnoringKept(block, opts) ==
    LET tag == IF block.assignedTag # NoTag THEN block.assignedTag ELSE DEFAULT_TAG
    IN  IF Len(block.lines) = 0 THEN block
        ELSE [block EXCEPT !.lines[1] = rewriteFirstLine(block.lines[1], tag, opts)]

\* One iteration of the second loop.
rewriteBlock(block, opts) ==
    LET tag == IF block.assignedTag # NoTag THEN block.assignedTag ELSE DEFAULT_TAG
    IN  IF block.keepExisting THEN block
        ELSE IF Len(block.lines) = 0 THEN block
        ELSE [block EXCEPT !.lines[1] = rewriteFirstLine(block.lines[1], tag, opts)]

\* The first loop over the sorted copy, from the block at the head of order
\* on, with act the active list: the block list after the last iteration.
RECURSIVE sweepAll(_, _, _, _)
sweepAll(bs, order, act, opts) ==
    IF order = <<>> THEN bs
    ELSE LET b    == Head(order)
             act1 == evict(act, Len(act), bs[b].startMs)
             nb   == sweepBlock(bs[b], act1, opts)
         IN  sweepAll([bs EXCEPT ![b] = nb], Tail(order), pushActive(act1, nb), opts)

\* rewriteAll: the second loop, over the blocks in their original order.
rewriteAll(bs, opts) == [b \in DOMAIN bs |-> rewriteBlock(bs[b], opts)]

\* A whole call of assignSlots: the block list as the call leaves it.
assignSlots(bs, opts) == rewriteAll(sweepAll(bs, sweepOrder(bs), <<>>, opts), opts)

\* ------------------------------------------------------------- serializeSrt
\* The ordered copy of the block list that serializeSrt renders.
orderedBlocks(bs) ==
    LET elems == {bs[p] : p \in DOMAIN bs}
    IN  StableSort([a \in elems, b \in elems |-> serializeCmp(a, b)], bs)

\* ------------------------------------------------------------- inputs
X == <<"x">>

\* "{\\anD}x"
Tagged(d) == Marker(Tag(d)) \o X

Intervals == {[startMs |-> s, endMs |-> e] : s \in 0..MaxTime, e \in 0..MaxTime}

\* Two overlapping windows and a window that ends where another starts.
FewIntervals ==
    {[startMs |-> 0, endMs |-> 2], [startMs |-> 1, endMs |-> 2],
     [startMs |-> 0, endMs |-> 1]}

\* The window every block of a crowded list is shown in.
CrowdIntervals == {[startMs |-> 0, endMs |-> 2]}

\* The window of the second block of a pair whose first block is shown in
\* 0..2: overlapping it, or starting where it ends.
SecondIntervals == {[startMs |-> 1, endMs |-> 2], [startMs |-> 2, endMs |-> 3]}

\* A negative window and an empty window inside a long window.
OddIntervals ==
    {[startMs |-> 0, endMs |-> 4], [startMs |-> 3, endMs |-> 1],
     [startMs |-> 2, endMs |-> 2]}

\* Text of one block: its lines.
PlainText == {<<X>>}

TaggedTexts == {<<X>>, <<Tagged("8")>>, <<Tagged("6")>>}

CrowdTexts == {<<X>>, <<Tagged("6")>>, <<Tagged("1")>>}

\* "{\\a{\\an1}n2}": removing the inner marker leaves "{\\an2}".
Nested == <<"{", "\\", "a">> \o Marker(Tag("1")) \o <<"n", "2", "}">>

AllTexts ==
    {<<X>>}
    \cup {<<Tagged(d)>> : d \in Digits}
    \cup {<<Marker(Tag("8")) \o Marker(Tag("5")) \o X>>,
          <<X \o Marker(Tag("3")) \o <<"y">> >>,
          <<<<"{">> \o X>>,
          <<Nested \o X>>,
          <<X \o Nested>>,
          <<Tagged("4"), <<"y">> \o Marker(Tag("7"))>>,
          <<X, Tagged("9")>>}

\* The block list of n blocks with windows w and texts t, numbered in the
\* order of the file.
BlockList(n, w, t) ==
    [p \in 1..n |-> NewBlock(p - 1, w[p].startMs, w[p].endMs, t[p])]

Options == [clean : BOOLEAN, ignoreExisting : BOOLEAN, omitDefault : BOOLEAN]

\* The options parseArgs starts from (lines 37-39).
DefaultOptions == [clean |-> FALSE, ignoreExisting |-> FALSE, omitDefault |-> TRUE]

\* What the tagged family is resolved under: omitDefault as parseArgs sets it.
TaggedOptions == {o \in Options : o.omitDefault}

CrowdOptions == {o \in Options : ~o.clean /\ o.omitDefault}

\* The files of a batch, as main sees them: whether the read succeeds, how
\* many valid blocks and skipped blocks the parser returns, whether the
\* write succeeds.
Files == [readable : BOOLEAN, validBlocks : 0..1, skippedBlocks : 0..1, writable : BOOLEAN]

\* ------------------------------------------------------------- state
VARIABLES
    options,      \* the AssignOptions
    blocks,       \* the block list (the objects assignSlots mutates)
    working,      \* the sweep order: indexes into blocks
    active,       \* the active list of (endMs, tag)
    i,            \* position of the sweep in working
    pc,           \* where the pipeline of one file stands
    parsed,       \* the block list as the parser returned it
    swept,        \* the block list as the sweep left it
    activeAt,     \* per block, the active list right after its eviction step
    ordered,      \* serializeSrt's ordered copy
    inputs,       \* main: args.inputs
    k,            \* main: position of the loop in inputs
    failures,     \* main: failures
    totalSkipped, \* main: totalSkipped
    attempted,    \* main: the inputs whose iteration has started
    written,      \* main: the inputs whose output has been written
    mpc,          \* main: "loop" or "exited"
    exitCode,     \* main: the exit status, -1 while running
    source,       \* parser: the file being parsed (kind, entries, styles, options)
    pk,           \* parser: position of the loop in the entries
    result,       \* parser: the ParseResult so far (blocks, skippedBlocks)
    order,        \* parseAss: the order counter
    rendered,     \* serializeSrt: the range lines it writes, in output order
    ppc,          \* parser: "parse", "done", "nothing" or "idle"
    firstRun      \* the block list as the first run of assignSlots left it

slotVars == <<options, blocks, working, active, i, pc, parsed, swept, activeAt, ordered,
              firstRun>>
mainVars == <<inputs, k, failures, totalSkipped, attempted, written, mpc, exitCode>>
parseVars == <<source, pk, result, order, rendered, ppc>>
vars == <<options, blocks, working, active, i, pc, parsed, swept, activeAt, ordered,
          firstRun, inputs, k, failures, totalSkipped, attempted, written, mpc,
          exitCode, source, pk, result, order, rendered, ppc>>

MainIdle ==
    /\ inputs = <<>>
    /\ k = 1
    /\ failures = 0
    /\ totalSkipped = 0
    /\ attempted = {}
    /\ written = {}
    /\ mpc = "loop"
    /\ exitCode = -1

ParseIdle ==
    /\ source = <<>>
    /\ pk = 1
    /\ result = [blocks |-> <<>>, skippedBlocks |-> 0]
    /\ order = 0
    /\ rendered = <<>>
    /\ ppc = "idle"

SlotsIdle ==
    /\ options = DefaultOptions
    /\ blocks = <<>>
    /\ working = <<>>
    /\ active = <<>>
    /\ i = 1
    /\ pc = "idle"
    /\ parsed = <<>>
    /\ swept = <<>>
    /\ activeAt = <<>>
    /\ ordered = <<>>
    /\ firstRun = <<>>

\* assignSlots is about to be called on the block list bs under options o.
Called(bs, o) ==
    /\ blocks = bs
    /\ options = o
    /\ parsed = bs
    /\ activeAt = [b \in DOMAIN bs |-> <<>>]

\* Called on some list of n blocks with windows from ivs and texts from
\* texts, under some options from opts.
CalledOn(n, ivs, texts, opts) ==
    \E w \in [1..n -> ivs] : \E t \in [1..n -> texts] : \E o \in opts :
        Called(BlockList(n, w, t), o)

\* Called on a block shown in 0..2 followed by a block of any text.
CalledOnPair ==
    \E t1 \in TaggedTexts : \E w \in SecondIntervals : \E t2 \in AllTexts :
        \E o \in Options :
            Called(<<NewBlock(0, 0, 2, t1), NewBlock(1, w.startMs, w.endMs, t2)>>, o)

\* The state in which main calls assignSlots on a parsed file.
Init ==
    /\ \/ \E n \in 1..MaxBlocks : CalledOn(n, Intervals, PlainText, {DefaultOptions})
       \/ \E n \in 2..MaxBlocks : CalledOn(n, OddIntervals, PlainText, {DefaultOptions})
       \/ \E n \in 2..MaxBlocks : CalledOn(n, FewIntervals, TaggedTexts, TaggedOptions)
       \/ CalledOn(1, Intervals, AllTexts, Options)
       \/ CalledOnPair
       \/ \E n \in 5..MaxCrowd : CalledOn(n, CrowdIntervals, CrowdTexts, CrowdOptions)
    /\ working = <<>>
    /\ active = <<>>
    /\ i = 1
    /\ pc = "start"
    /\ swept = <<>>
    /\ ordered = <<>>
    /\ firstRun = <<>>
    /\ MainIdle
    /\ ParseIdle

\* Lines 454-459: the sorted copy and the empty active list.
AssignSlotsBegin ==
    /\ pc = "start"
    /\ working' = sweepOrder(blocks)
    /\ active' = <<>>
    /\ i' = 1
    /\ pc' = "sweep"
    /\ UNCHANGED <<options, blocks, parsed, swept, activeAt, ordered, firstRun>>
    /\ UNCHANGED mainVars
    /\ UNCHANGED parseVars

\* Lines 461-497: one iteration of the sweep.
SweepStep ==
    /\ pc = "sweep"
    /\ i <= Len(working)
    /\ LET b    == working[i]
           act1 == evict(active, Len(active), blocks[b].startMs)
           nb   == sweepBlock(blocks[b], act1, options)
           bs   == [blocks EXCEPT ![b] = nb]
       IN  /\ blocks' = bs
           /\ active' = pushActive(act1, nb)
           /\ activeAt' = [activeAt EXCEPT ![b] = act1]
           /\ swept' = IF i = Len(working) THEN bs ELSE swept
    /\ i' = i + 1
    /\ pc' = IF i = Len(working) THEN "rewrite" ELSE "sweep"
    /\ UNCHANGED <<options, working, parsed, ordered, firstRun>>
    /\ UNCHANGED mainVars
    /\ UNCHANGED parseVars

\* Lines 499-517: the second loop, over the blocks in their original order.
Rewrite ==
    /\ pc = "rewrite"
    /\ blocks' = [b \in DOMAIN blocks |-> rewriteBlock(blocks[b], options)]
    /\ pc' = "serialize"
    /\ UNCHANGED <<options, working, active, i, parsed, swept, activeAt, ordered, firstRun>>
    /\ UNCHANGED mainVars
    /\ UNCHANGED parseVars

\* Lines 520-532: serializeSrt on the resolved blocks.
Serialize ==
    /\ pc = "serialize"
    /\ ordered' = orderedBlocks(blocks)
    /\ pc' = "done"
    /\ UNCHANGED <<options, blocks, working, active, i, parsed, swept, activeAt, firstRun>>
    /\ UNCHANGED mainVars
    /\ UNCHANGED parseVars

\* assignSlots called a second time, with the same options, on the block
\* list the first call left.
RunAgain ==
    /\ pc = "done"
    /\ firstRun' = blocks
    /\ blocks' = assignSlots(blocks, options)
    /\ pc' = "again"
    /\ UNCHANGED <<options, working, active, i, parsed, swept, activeAt, ordered>>
    /\ UNCHANGED mainVars
    /\ UNCHANGED parseVars

Next == AssignSlotsBegin \/ SweepStep \/ Rewrite \/ Serialize \/ RunAgain

Spec == Init /\ [][Next]_vars

\* ------------------------------------------------------------- main
\* Line 575: the batch loop is about to start on a non-empty list of inputs.
InitMain ==
    /\ \E n \in 1..MaxFiles : inputs \in [1..n -> Files]
    /\ k = 1
    /\ failures = 0
    /\ totalSkipped = 0
    /\ attempted = {}
    /\ written = {}
    /\ mpc = "loop"
    /\ exitCode = -1
    /\ SlotsIdle
    /\ ParseIdle

InLoop == mpc = "loop" /\ k <= Len(inputs)

\* Line 580 throws: the catch block counts the failure and the loop goes on.
ReadFails ==
    /\ InLoop
    /\ ~inputs[k].readable
    /\ failures' = failures + 1
    /\ attempted' = attempted \cup {k}
    /\ k' = k + 1
    /\ UNCHANGED <<inputs, totalSkipped, written, mpc, exitCode>>
    /\ UNCHANGED slotVars
    /\ UNCHANGED parseVars

\* Lines 586-589: no valid block, process.exit(1) inside the loop body.
NoValidBlocks ==
    /\ InLoop
    /\ inputs[k].readable
    /\ inputs[k].validBlocks = 0
    /\ attempted' = attempted \cup {k}
    /\ mpc' = "exited"
    /\ exitCode' = 1
    /\ UNCHANGED <<inputs, k, failures, totalSkipped, written>>
    /\ UNCHANGED slotVars
    /\ UNCHANGED parseVars

\* Lines 591-615 with a write that throws: counted by the catch block.
WriteFails ==
    /\ InLoop
    /\ inputs[k].readable
    /\ inputs[k].validBlocks > 0
    /\ ~inputs[k].writable
    /\ failures' = failures + 1
    /\ attempted' = attempted \cup {k}
    /\ k' = k + 1
    /\ UNCHANGED <<inputs, totalSkipped, written, mpc, exitCode>>
    /\ UNCHANGED slotVars
    /\ UNCHANGED parseVars

\* Lines 591-617: the file is resolved, serialized and written.
FileDone ==
    /\ InLoop
    /\ inputs[k].readable
    /\ inputs[k].validBlocks > 0
    /\ inputs[k].writable
    /\ totalSkipped' = totalSkipped + inputs[k].skippedBlocks
    /\ attempted' = attempted \cup {k}
    /\ written' = written \cup {k}
    /\ k' = k + 1
    /\ UNCHANGED <<inputs, failures, mpc, exitCode>>
    /\ UNCHANGED slotVars
    /\ UNCHANGED parseVars

\* Lines 626-632: after the loop, exit status 1 when a failure was counted.
MainEnd ==
    /\ mpc = "loop"
    /\ k > Len(inputs)
    /\ mpc' = "exited"
    /\ exitCode' = IF failures > 0 THEN 1 ELSE 0
    /\ UNCHANGED <<inputs, k, failures, totalSkipped, attempted, written>>
    /\ UNCHANGED slotVars
    /\ UNCHANGED parseVars

NextMain == ReadFails \/ NoValidBlocks \/ WriteFails \/ FileDone \/ MainEnd

SpecMain == InitMain /\ [][NextMain]_vars

\* ------------------------------------------------------------- timestamps
\* parseTimestampToMs and parseAssTimestampToMs return null on no match.
Null == -1

DigitChars == {"0", "1", "2", "3", "4", "5", "6", "7", "8", "9"}

DigitValue(c) ==
    CASE c = "0" -> 0 [] c = "1" -> 1 [] c = "2" -> 2 [] c = "3" -> 3
      [] c = "4" -> 4 [] c = "5" -> 5 [] c = "6" -> 6 [] c = "7" -> 7
      [] c = "8" -> 8 [] c = "9" -> 9

DigitChar(n) == <<"0", "1", "2", "3", "4", "5", "6", "7", "8", "9">>[n + 1]

AllDigits(s) == \A p \in DOMAIN s : s[p] \in DigitChars

\* Number(s) of a string of decimal digits.
RECURSIVE NumberOf(_)
NumberOf(s) ==
    IF s = <<>> THEN 0
    ELSE 10 * NumberOf(SubSeq(s, 1, Len(s) - 1)) + DigitValue(s[Len(s)])

\* String(n) of a natural number.
RECURSIVE StringOf(_)
StringOf(n) ==
    IF n < 10 THEN <<DigitChar(n)>>
    ELSE StringOf(n \div 10) \o <<DigitChar(n % 10)>>

\* s.padStart(width, "0")
RECURSIVE padStart(_, _)
padStart(s, width) == IF Len(s) >= width THEN s ELSE padStart(<<"0">> \o s, width)

Whitespace == {" ", "\t", "\n", "\r"}

\* s.trim()
RECURSIVE trim(_)
trim(s) ==
    IF s = <<>> THEN s
    ELSE IF s[1] \in Whitespace THEN trim(Tail(s))
    ELSE IF s[Len(s)] \in Whitespace THEN trim(SubSeq(s, 1, Len(s) - 1))
    ELSE s

\* /^(\d{2}):(\d{2}):(\d{2}),(\d{3})$/
MatchesSrtTimestamp(ts) ==
    /\ Len(ts) = 12
    /\ \A p \in {1, 2, 4, 5, 7, 8, 10, 11, 12} : ts[p] \in DigitChars
    /\ ts[3] = ":"
    /\ ts[6] = ":"
    /\ ts[9] = ","

parseTimestampToMs(ts) ==
    IF ~MatchesSrtTimestamp(ts) THEN Null
    ELSE LET hours   == NumberOf(SubSeq(ts, 1, 2))
             minutes == NumberOf(SubSeq(ts, 4, 5))
             seconds == NumberOf(SubSeq(ts, 7, 8))
             millis  == NumberOf(SubSeq(ts, 10, 12))
         IN  ((hours * 60 + minutes) * 60 + seconds) * 1000 + millis

\* The position of the first ":" of ts, 0 when there is none.
FirstColon(ts) ==
    LET colons == {p \in DOMAIN ts : ts[p] = ":"}
    IN  IF colons = {} THEN 0 ELSE CHOOSE p \in colons : \A q \in colons : p <= q

\* /^(\d+):(\d{2}):(\d{2})\.(\d{1,2})$/
MatchesAssTimestamp(ts) ==
    LET c    == FirstColon(ts)
        rest == SubSeq(ts, c + 1, Len(ts))
    IN  /\ c >= 2
        /\ AllDigits(SubSeq(ts, 1, c - 1))
        /\ Len(rest) \in {7, 8}
        /\ \A p \in {1, 2, 4, 5} : rest[p] \in DigitChars
        /\ rest[3] = ":"
        /\ rest[6] = "."
        /\ AllDigits(SubSeq(rest, 7, Len(rest)))

parseAssTimestampToMs(ts) ==
    IF ~MatchesAssTimestamp(ts) THEN Null
    ELSE LET c       == FirstColon(ts)
             rest    == SubSeq(ts, c + 1, Len(ts))
             hours   == NumberOf(SubSeq(ts, 1, c - 1))
             minutes == NumberOf(SubSeq(rest, 1, 2))
             seconds == NumberOf(SubSeq(rest, 4, 5))
             centis  == NumberOf(SubSeq(rest, 7, Len(rest)))
             millis  == centis * (IF Len(rest) = 7 THEN 100 ELSE 10)
         IN  ((hours * 60 + minutes) * 60 + seconds) * 1000 + millis

msToSrtTimestamp(ms) ==
    LET totalSeconds == ms \div 1000
        millis       == ms % 1000
        seconds      == totalSeconds % 60
        totalMinutes == totalSeconds \div 60
        minutes      == totalMinutes % 60
        hours        == totalMinutes \div 60
    IN  padStart(StringOf(hours), 2) \o <<":">> \o padStart(StringOf(minutes), 2)
        \o <<":">> \o padStart(StringOf(seconds), 2) \o <<",">>
        \o padStart(StringOf(millis), 3)

Arrow == <<" ", "-", "-", ">", " ">>

\* The positions of line where "-->" begins.
ArrowPositions(line) ==
    {p \in 1..(Len(line) - 2) : SubSeq(line, p, p + 2) = <<"-", "-", ">">>}

\* parseTimingLine: null, or the two times and the range line it keeps,
\* which is the text of the two parts as they stood in the file.
parseTimingLine(line) ==
    LET arrows == ArrowPositions(line)
        at     == CHOOSE p \in arrows : TRUE
        part0  == trim(SubSeq(line, 1, at - 1))
        part1  == trim(SubSeq(line, at + 3, Len(line)))
        start  == parseTimestampToMs(part0)
        end    == parseTimestampToMs(part1)
    IN  IF Cardinality(arrows) # 1 THEN <<>>
        ELSE IF start = Null \/ end = Null THEN <<>>
        ELSE [startMs |-> start, endMs |-> end, timingLine |-> part0 \o Arrow \o part1]

\* ------------------------------------------------------------- parseSrt
EmptyResult == [blocks |-> <<>>, skippedBlocks |-> 0]

Skipped(res) == [res EXCEPT !.skippedBlocks = @ + 1]

\* every((line) => line.trim().length === 0)
AllBlank(lines) == \A l \in DOMAIN lines : trim(lines[l]) = <<>>

\* One call of the forEach callback of parseSrt on a raw block, given as
\* the lines of its trimmed text (no line for a blank raw block).
parseSrtBlock(res, rawLines, originalOrder) ==
    LET timed           == {l \in DOMAIN rawLines : ArrowPositions(rawLines[l]) # {}}
        timingLineIndex == CHOOSE l \in timed : \A m \in timed : l <= m
        timing          == parseTimingLine(trim(rawLines[timingLineIndex]))
        possibleIndex   == IF timingLineIndex > 1
                           THEN trim(rawLines[timingLineIndex - 1]) ELSE <<>>
        index           == IF possibleIndex # <<>> /\ AllDigits(possibleIndex)
                           THEN NumberOf(possibleIndex) ELSE Null
        textLines       == SubSeq(rawLines, timingLineIndex + 1, Len(rawLines))
    IN  IF rawLines = <<>> THEN Skipped(res)
        ELSE IF timed = {} THEN Skipped(res)
        ELSE IF timing = <<>> THEN Skipped(res)
        ELSE IF textLines = <<>> \/ AllBlank(textLines) THEN Skipped(res)
        ELSE [res EXCEPT !.blocks = Append(@,
                 [originalOrder |-> originalOrder,
                  index         |-> index,
                  startMs       |-> timing.startMs,
                  endMs         |-> timing.endMs,
                  timingLine    |-> timing.timingLine,
                  lines         |-> textLines])]

\* ------------------------------------------------------------- parseAss
\* An optional string that is absent (undefined).
Undefined == <<"undefined">>

Truthy(v) == v # Undefined /\ v # <<>>

\* a ?? b
Coalesce(a, b) == IF a # Undefined THEN a ELSE b

Letters ==
    {"A", "B", "C", "D", "E", "F", "G", "H", "I", "J", "K", "L", "M",
     "N", "O", "P", "Q", "R", "S", "T", "U", "V", "W", "X", "Y", "Z",
     "a", "b", "c", "d", "e", "f", "g", "h", "i", "j", "k", "l", "m",
     "n", "o", "p", "q", "r", "s", "t", "u", "v", "w", "x", "y", "z"}

HexChars ==
    DigitChars \cup {"A", "B", "C", "D", "E", "F", "a", "b", "c", "d", "e", "f"}

\* toLowerCase on the characters of a colour.
LowerChar(c) ==
    CASE c = "A" -> "a" [] c = "B" -> "b" [] c = "C" -> "c" [] c = "D" -> "d"
      [] c = "E" -> "e" [] c = "F" -> "f" [] c = "H" -> "h" [] OTHER -> c

toLowerCase(s) == [p \in DOMAIN s |-> LowerChar(s[p])]

\* The length of the longest prefix of s whose characters are in set.
RECURSIVE PrefixIn(_, _)
PrefixIn(s, set) ==
    IF s # <<>> /\ s[1] \in set THEN 1 + PrefixIn(Tail(s), set) ELSE 0

\* assColorToHex: &HAABBGGRR or &HBBGGRR to #rrggbb, or undefined.
assColorToHex(color) ==
    LET trimmed    == trim(color)
        noPrefix   == IF Len(trimmed) >= 2 /\ trimmed[1] = "&" /\ trimmed[2] \in {"H", "h"}
                      THEN DropChars(trimmed, 2)
                      ELSE IF Len(trimmed) >= 1 /\ trimmed[1] \in {"H", "h"}
                      THEN DropChars(trimmed, 1)
                      ELSE trimmed
        normalized == IF noPrefix # <<>> /\ noPrefix[Len(noPrefix)] = "&"
                      THEN SubSeq(noPrefix, 1, Len(noPrefix) - 1)
                      ELSE noPrefix
        hex        == padStart(normalized, 6)
        n          == Len(hex)
        bb         == SubSeq(hex, n - 5, n - 4)
        gg         == SubSeq(hex, n - 3, n - 2)
        rr         == SubSeq(hex, n - 1, n)
    IN  IF ~Truthy(color) THEN Undefined
        ELSE IF normalized = <<>> THEN Undefined
        ELSE IF \E p \in (n - 5)..n : hex[p] \notin HexChars THEN Undefined
        ELSE toLowerCase(<<"#">> \o rr \o gg \o bb)

\* The position of the "}" that closes a "{" at the head of text, 0 when
\* none follows: /\{([^}]*)\}/ matches up to the first "}".
CloseOf(text) ==
    LET closes == {p \in 2..Len(text) : text[p] = "}"}
    IN  IF closes = {} THEN 0 ELSE CHOOSE p \in closes : \A q \in closes : p <= q

\* text.replace(/\{([^}]*)\}/g, ""): the text without its override blocks.
RECURSIVE cleanedOf(_)
cleanedOf(text) ==
    IF text = <<>> THEN <<>>
    ELSE IF text[1] = "{" /\ CloseOf(text) > 0
         THEN cleanedOf(DropChars(text, CloseOf(text)))
         ELSE <<text[1]>> \o cleanedOf(Tail(text))

\* The contents of the override blocks of text, in order.
RECURSIVE overrideBlocks(_)
overrideBlocks(text) ==
    IF text = <<>> THEN <<>>
    ELSE IF text[1] = "{" /\ CloseOf(text) > 0
         THEN <<SubSeq(text, 2, CloseOf(text) - 1)>>
              \o overrideBlocks(DropChars(text, CloseOf(text)))
         ELSE overrideBlocks(Tail(text))

\* tags.match(/\\[A-Za-z]+[^\\}]*/g): a token runs from a backslash that a
\* letter follows up to the next backslash.
RECURSIVE tokenMatches(_)
tokenMatches(tags) ==
    LET later == {p \in 2..Len(tags) : tags[p] = "\\"}
        stop  == IF later = {} THEN Len(tags) + 1
                 ELSE CHOOSE p \in later : \A q \in later : p <= q
    IN  IF tags = <<>> THEN <<>>
        ELSE IF tags[1] = "\\" /\ Len(tags) >= 2 /\ tags[2] \in Letters
             THEN <<SubSeq(tags, 1, stop - 1)>> \o tokenMatches(DropChars(tags, stop - 1))
             ELSE tokenMatches(Tail(tags))

\* Whether the token is the backslash and the two letters a, b and more.
TokenIs(token, a, b) == Len(token) >= 4 /\ token[2] = a /\ token[3] = b

\* The capture of /\\c(&?H[0-9A-Fa-f]+&?)/ in a token, or undefined.
colourCapture(token) ==
    LET body == DropChars(token, 2)
        amp  == IF body # <<>> /\ body[1] = "&" THEN 1 ELSE 0
        digs == PrefixIn(DropChars(body, amp + 1), HexChars)
        last == amp + 1 + digs
        tail == IF Len(body) > last /\ body[last + 1] = "&" THEN 1 ELSE 0
    IN  IF Len(token) >= 2 /\ token[2] = "c" /\ Len(body) > amp
           /\ body[amp + 1] = "H" /\ digs >= 1
        THEN SubSeq(body, 1, last + tail)
        ELSE Undefined

\* The body of tokenMatches.forEach on one token.  /\\1c.../ never matches
\* a token, whose backslash is followed by a letter.
applyToken(acc, token) ==
    LET a1 == IF TokenIs(token, "a", "n") /\ token[4] \in Digits
              THEN [acc EXCEPT !.align = Tag(token[4])] ELSE acc
        a2 == IF TokenIs(token, "f", "n")
              THEN [a1 EXCEPT !.fontName = trim(DropChars(token, 3))] ELSE a1
        a3 == IF TokenIs(token, "f", "s") /\ token[4] \in DigitChars
              THEN [a2 EXCEPT !.fontSize =
                       SubSeq(token, 4, 3 + PrefixIn(DropChars(token, 3), DigitChars))]
              ELSE a2
        c  == colourCapture(token)
    IN  IF c # Undefined
        THEN [a3 EXCEPT !.color = Coalesce(assColorToHex(c), a3.color)]
        ELSE a3

RECURSIVE applyTokens(_, _)
applyTokens(acc, tokens) ==
    IF tokens = <<>> THEN acc
    ELSE applyTokens(applyToken(acc, Head(tokens)), Tail(tokens))

RECURSIVE applyBlocks(_, _)
applyBlocks(acc, tagBlocks) ==
    IF tagBlocks = <<>> THEN acc
    ELSE applyBlocks(applyTokens(acc, tokenMatches(Head(tagBlocks))), Tail(tagBlocks))

parseAssOverrides(text) ==
    applyBlocks([align |-> Undefined, fontName |-> Undefined,
                 fontSize |-> Undefined, color |-> Undefined,
                 cleaned |-> cleanedOf(text)],
                overrideBlocks(text))

\* value.replace(/&/g, "&amp;").replace(/"/g, "&quot;")...
EscapeChar(c) ==
    CASE c = "&"  -> <<"&", "a", "m", "p", ";">>
      [] c = "\"" -> <<"&", "q", "u", "o", "t", ";">>
      [] c = "<"  -> <<"&", "l", "t", ";">>
      [] c = ">"  -> <<"&", "g", "t", ";">>
      [] OTHER    -> <<c>>

RECURSIVE escapeHtmlAttr(_)
escapeHtmlAttr(value) ==
    IF value = <<>> THEN <<>>
    ELSE EscapeChar(Head(value)) \o escapeHtmlAttr(Tail(value))

\* `name="${escapeHtmlAttr(value)}"`
Attr(name, value) == name \o <<"=", "\"">> \o escapeHtmlAttr(value) \o <<"\"">>

\* attrs.join(" ")
RECURSIVE JoinSpace(_)
JoinSpace(attrs) ==
    IF attrs = <<>> THEN <<>>
    ELSE IF Len(attrs) = 1 THEN attrs[1]
    ELSE attrs[1] \o <<" ">> \o JoinSpace(Tail(attrs))

wrapWithFonts(text, fontName, fontSize, color) ==
    LET face  == IF Truthy(fontName)
                 THEN <<Attr(<<"f", "a", "c", "e">>, fontName)>> ELSE <<>>
        size  == IF Truthy(fontSize)
                 THEN <<Attr(<<"s", "i", "z", "e">>, fontSize)>> ELSE <<>>
        col   == IF Truthy(color)
                 THEN <<Attr(<<"c", "o", "l", "o", "r">>, color)>> ELSE <<>>
    IN  IF ~Truthy(fontName) /\ ~Truthy(fontSize) /\ ~Truthy(color) THEN text
        ELSE <<"<", "f", "o", "n", "t", " ">> \o JoinSpace(face \o size \o col)
             \o <<">">> \o text \o <<"<", "/", "f", "o", "n", "t", ">">>

\* cleaned.replace(/\\N/g, "\n").replace(/\\n/g, "\n")
RECURSIVE expandBreaks(_)
expandBreaks(text) ==
    IF text = <<>> THEN <<>>
    ELSE IF Len(text) >= 2 /\ text[1] = "\\" /\ text[2] \in {"N", "n"}
         THEN <<"\n">> \o expandBreaks(DropChars(text, 2))
         ELSE <<text[1]>> \o expandBreaks(Tail(text))

\* text.split("\n")
RECURSIVE splitLines(_)
splitLines(text) ==
    LET breaks == {p \in DOMAIN text : text[p] = "\n"}
        at     == CHOOSE p \in breaks : \A q \in breaks : p <= q
    IN  IF breaks = {} THEN <<text>>
        ELSE <<SubSeq(text, 1, at - 1)>> \o splitLines(DropChars(text, at))

NoStyle == [Fontname |-> Undefined, Fontsize |-> Undefined, PrimaryColour |-> Undefined]

\* styles.get(values.Style ?? "") ?? {}
styleOf(styles, name) == IF name \in DOMAIN styles THEN styles[name] ELSE NoStyle

\* The text of the event as lines 354-367 build it from the overrides and
\* the style: line-break markers expanded, wrapped in the font element,
\* prefixed with the alignment marker.
styledText(override, style, opts) ==
    LET fontName == Coalesce(override.fontName, style.Fontname)
        fontSize == Coalesce(override.fontSize, style.Fontsize)
        color0   == Coalesce(override.color, assColorToHex(style.PrimaryColour))
        color    == IF override.color = Undefined /\ opts.omitWhiteColor
                       /\ color0 # Undefined
                       /\ toLowerCase(color0) = <<"#", "f", "f", "f", "f", "f", "f">>
                    THEN Undefined ELSE color0
        text     == wrapWithFonts(expandBreaks(override.cleaned), fontName, fontSize, color)
    IN  IF Truthy(override.align) THEN Marker(override.align) \o text ELSE text

\* Lines 352-367, with style and override each evaluated once.
eventText(values, styles, opts) ==
    CHOOSE text \in {styledText(override, style, opts) :
                        override \in {parseAssOverrides(values.Text)},
                        style \in {styleOf(styles, values.Style)}} : TRUE

\* splitAssFields trims every field of the Dialogue line.
valuesOf(event) ==
    [Start |-> trim(event.Start), End |-> trim(event.End),
     Style |-> event.Style, Text |-> trim(event.Text)]

\* Lines 347-382 on the parsed times and the lines of the text, with the
\* order counter n: the result and the counter after the iteration.
eventOutcome(res, n, startMs, endMs, lineBlocks) ==
    IF startMs = Null \/ endMs = Null THEN <<Skipped(res), n>>
    ELSE IF AllBlank(lineBlocks) THEN <<Skipped(res), n>>
    ELSE <<[res EXCEPT !.blocks = Append(@,
               [originalOrder |-> n,
                index         |-> Null,
                startMs       |-> startMs,
                endMs         |-> endMs,
                timingLine    |-> msToSrtTimestamp(startMs) \o Arrow
                                  \o msToSrtTimestamp(endMs),
                lines         |-> lineBlocks])],
            n + 1>>

\* One iteration of the event loop of parseAss on a Dialogue line, with
\* the times and the text each evaluated once.
parseAssEvent(res, n, event, styles, opts) ==
    CHOOSE out \in {eventOutcome(res, n, startMs, endMs, lineBlocks) :
                       startMs \in {parseAssTimestampToMs(trim(event.Start))},
                       endMs \in {parseAssTimestampToMs(trim(event.End))},
                       lineBlocks \in {splitLines(eventText(valuesOf(event), styles, opts))}}
                : TRUE

\* block.timingLine of each block in the order serializeSrt writes them.
rangeLines(bs) ==
    LET out == orderedBlocks(bs)
    IN  [p \in DOMAIN out |-> out[p].timingLine]

\* ------------------------------------------------------------- parser inputs
MaxEntries == 3

\* Start times of a range line: well formed, seconds and minutes of 60 or
\* more, the largest, and two that the pattern rejects.
SrtStarts ==
    {<<"0", "0", ":", "0", "0", ":", "0", "1", ",", "0", "0", "0">>,
     <<"0", "0", ":", "0", "0", ":", "7", "5", ",", "0", "0", "0">>,
     <<"0", "0", ":", "6", "1", ":", "0", "0", ",", "5", "0", "0">>,
     <<"9", "9", ":", "5", "9", ":", "5", "9", ",", "9", "9", "9">>,
     <<"0", ":", "0", "0", ":", "0", "1", ",", "0", "0", "0">>,
     <<"0", "0", ":", "0", "0", ":", "0", "1", ".", "0", "0", "0">>}

SrtEnds ==
    {<<"0", "0", ":", "0", "0", ":", "0", "2", ",", "0", "0", "0">>,
     <<"0", "0", ":", "9", "9", ":", "9", "9", ",", "9", "9", "9">>}

Separators == {<<" ", "-", "-", ">", " ">>, <<"-", "-", ">">>}

GoodRange == <<"0", "0", ":", "0", "0", ":", "0", "0", ",", "0", "0", "0", " ", "-", "-", ">", " ", "0", "0", ":", "0", "0", ":", "0", "9", ",", "0", "0", "0">>

\* The line before the range line: a number, or not.
IndexLines ==
    {<<"1">>,
     <<"0", "7">>,
     <<"a">>}

TextLines ==
    {<<"x">>,
     <<" ">>,
     <<"{", "\\", "a", "n", "8", "}", "x">>}

\* Raw blocks of an SRT file, each the lines of its trimmed text.
TimeBlocks ==
    {<<<<"1">>, s \o sep \o e, <<"x">>>> : s \in SrtStarts, sep \in Separators, e \in SrtEnds}

ShapeBlocks ==
    {<<n, GoodRange, t>> : n \in IndexLines, t \in TextLines}
    \cup {<<GoodRange, t>> : t \in TextLines}
    \cup {<<>>, <<<<"x">>>>, <<<<"1">>, GoodRange>>,
          <<GoodRange \o <<" ", "-", "-", ">">>, <<"x">>>>,
          <<<<"x">>, GoodRange, <<"x">>, <<" ">>>>}

RawBlocks == TimeBlocks \cup ShapeBlocks

FillerBlocks == {<<>>, <<<<"1">>, GoodRange, <<"x">>>>}

\* Start times of a Dialogue line: one and two digits of centiseconds, hours
\* of three digits, minutes of 60 or more, and one the pattern rejects.
AssStarts ==
    {<<"0", ":", "0", "0", ":", "0", "1", ".", "5">>,
     <<"1", ":", "0", "2", ":", "0", "3", ".", "4", "5">>,
     <<"1", "0", "0", ":", "0", "0", ":", "0", "0", ".", "0", "0">>,
     <<"0", ":", "7", "5", ":", "0", "0", ".", "0", "0">>,
     <<"0", "0", ":", "0", "0", ":", "0", "1", ",", "0", "0", "0">>}

AssEnds ==
    {<<"0", ":", "0", "0", ":", "0", "9", ".", "0", "0">>,
     <<"1", "2", "3", ":", "0", "0", ":", "0", "0", ".", "0">>}

\* Text fields of a Dialogue line: plain, empty, override blocks with and
\* without text after them, line-break markers, an unclosed brace.
AssTexts ==
    {<<"x">>,
     <<>>,
     <<"{", "\\", "f", "n", "A", "}">>,
     <<"{", "\\", "f", "s", "9", "}", "x">>,
     <<"{", "\\", "a", "n", "8", "}">>,
     <<"{", "\\", "a", "n", "8", "}", "x">>,
     <<"\\", "N">>,
     <<"x", "\\", "N", "y">>,
     <<"{", "\\", "c", "&", "H", "F", "F", "F", "F", "F", "F", "&", "}">>,
     <<"{", "\\", "i", "1", "}">>,
     <<"{", "\\", "f", "n", "A", "&", "B", "}", "x">>,
     <<"{", "\\", "c", "&", "H", "0", "0", "0", "0", "F", "F", "&", "}", "\\", "N", " ">>,
     <<"{", "\\", "1", "c", "&", "H", "0", "0", "0", "0", "F", "F", "&", "}", "x">>,
     <<"{", "\\", "f", "s", "1", "2", "\\", "f", "n", " ", "}", "{", "x">>}

StyleNames == {"Default", "Red", "Missing"}

\* The style table parseAssStyles builds from the [V4+ Styles] section.
Styles ==
    [Default |-> [Fontname |-> <<"A">>, Fontsize |-> <<"9">>,
                  PrimaryColour |-> <<"&", "H", "0", "0", "F", "F", "F", "F", "F", "F">>],
     Red     |-> [Fontname |-> Undefined, Fontsize |-> Undefined,
                  PrimaryColour |-> <<"&", "H", "0", "0", "0", "0", "0", "0", "F", "F">>]]

\* The white of the style is the only attribute: nothing is left of it
\* when omitWhiteColor is on.
WhiteStyles ==
    [Default |-> [Fontname |-> Undefined, Fontsize |-> Undefined,
                  PrimaryColour |-> <<"&", "H", "0", "0", "F", "F", "F", "F", "F", "F">>]]

GoodStart == <<"0", ":", "0", "0", ":", "0", "0", ".", "0", "0">>

GoodEnd == <<"0", ":", "0", "0", ":", "0", "9", ".", "0", "0">>

Event(start, end, style, text) ==
    [Start |-> start, End |-> end, Style |-> style, Text |-> text]

TimeEvents == {Event(s, e, "Missing", <<"x">>) : s \in AssStarts, e \in AssEnds}

TextEvents == {Event(GoodStart, GoodEnd, n, t) : n \in StyleNames, t \in AssTexts}

Events == TimeEvents \cup TextEvents

FillerEvents == {Event(<<"x">>, GoodEnd, "Missing", <<"x">>),
                 Event(GoodStart, GoodEnd, "Missing", <<"x">>)}

AssParseOptions == [omitWhiteColor : BOOLEAN]

\* ------------------------------------------------------------- parser
\* A file of up to MaxEntries entries: fillers, then one entry of the set.
FileOf(kind, fillers, entries, styles, opts) ==
    \E n \in 0..(MaxEntries - 1) : \E head \in [1..n -> fillers] : \E last \in entries :
        source = [kind |-> kind, entries |-> Append(head, last),
                  styles |-> styles, opts |-> opts]

InitParse ==
    /\ \/ FileOf("srt", FillerBlocks, RawBlocks, <<>>, [omitWhiteColor |-> TRUE])
       \/ \E opts \in AssParseOptions, styles \in {Styles, WhiteStyles} :
              FileOf("ass", FillerEvents, Events, styles, opts)
    /\ pk = 1
    /\ result = EmptyResult
    /\ order = 0
    /\ rendered = <<>>
    /\ ppc = "parse"
    /\ SlotsIdle
    /\ MainIdle

\* One call of the forEach callback of parseSrt (lines 394-442).
ParseSrtStep ==
    /\ ppc = "parse"
    /\ source.kind = "srt"
    /\ pk <= Len(source.entries)
    /\ result' = parseSrtBlock(result, source.entries[pk], pk - 1)
    /\ pk' = pk + 1
    /\ UNCHANGED <<source, order, rendered, ppc>>
    /\ UNCHANGED slotVars
    /\ UNCHANGED mainVars

\* One iteration of the event loop of parseAss (lines 332-383).
ParseAssStep ==
    /\ ppc = "parse"
    /\ source.kind = "ass"
    /\ pk <= Len(source.entries)
    /\ LET out == parseAssEvent(result, order, source.entries[pk],
                                source.styles, source.opts)
       IN  /\ result' = out[1]
           /\ order' = out[2]
    /\ pk' = pk + 1
    /\ UNCHANGED <<source, rendered, ppc>>
    /\ UNCHANGED slotVars
    /\ UNCHANGED mainVars

\* Lines 586-589: no block was parsed, nothing is written.
ParseNothing ==
    /\ ppc = "parse"
    /\ pk > Len(source.entries)
    /\ result.blocks = <<>>
    /\ ppc' = "nothing"
    /\ UNCHANGED <<source, pk, result, order, rendered>>
    /\ UNCHANGED slotVars
    /\ UNCHANGED mainVars

\* serializeSrt on the parsed blocks; assignSlots, which runs before it,
\* leaves startMs, endMs, originalOrder and timingLine alone.
SerializeParsed ==
    /\ ppc = "parse"
    /\ pk > Len(source.entries)
    /\ result.blocks # <<>>
    /\ rendered' = rangeLines(result.blocks)
    /\ ppc' = "done"
    /\ UNCHANGED <<source, pk, result, order>>
    /\ UNCHANGED slotVars
    /\ UNCHANGED mainVars

NextParse == ParseSrtStep \/ ParseAssStep \/ ParseNothing \/ SerializeParsed

SpecParse == InitParse /\ [][NextParse]_vars

\* ------------------------------------------------------------- claims
\* Position of block b in the sweep order.
Pos(b) == CHOOSE p \in DOMAIN working : working[p] = b

AfterSweep == pc \in {"rewrite", "serialize", "done"}

\* How many iterations of the sweep have run.
SweptCount ==
    IF AfterSweep THEN Len(working) ELSE IF pc = "sweep" THEN i - 1 ELSE 0

\* The blocks that have been through their iteration of the sweep.
SweptBlocks == {working[p] : p \in 1..SweptCount}

SweptBefore(a, b) == Pos(a) < Pos(b)

Overlap(a, b) ==
    /\ blocks[a].startMs < blocks[b].endMs
    /\ blocks[b].startMs < blocks[a].endMs

NoneKept == \A b \in DOMAIN blocks : ~blocks[b].keepExisting

\* The tags of the entries that were active when block b was swept.
InUseAt(b) == {activeAt[b][e].tag : e \in DOMAIN activeAt[b]}

Palette == {POSITION_TAGS[p] : p \in DOMAIN POSITION_TAGS}

PaletteExhaustedAt(b) == Palette \subseteq InUseAt(b)

\* C1 as stated: after the sweep, when no block was kept, any two distinct
\* blocks with overlapping windows carry different tags, however many
\* blocks overlap at once.
C1_Original ==
    (AfterSweep /\ NoneKept) =>
        \A a, b \in DOMAIN blocks :
            (a # b /\ Overlap(a, b)) => blocks[a].assignedTag # blocks[b].assignedTag

\* C1 amended: after the sweep, when no block was kept, two distinct blocks
\* with overlapping windows carry different tags unless the one swept later
\* was swept while all five palette tags were in use.
C1_DistinctUnlessExhausted ==
    (AfterSweep /\ NoneKept) =>
        \A a, b \in DOMAIN blocks :
            (a # b /\ Overlap(a, b) /\ SweptBefore(a, b) /\ ~PaletteExhaustedAt(b))
                => blocks[a].assignedTag # blocks[b].assignedTag

\* Three blocks, none kept, overlap pairwise and carry three different tags.
C1_Witness ==
    /\ pc = "done"
    /\ NoneKept
    /\ \E a, b, c \in DOMAIN blocks :
        /\ Cardinality({a, b, c}) = 3
        /\ Overlap(a, b) /\ Overlap(b, c) /\ Overlap(a, c)
        /\ Cardinality({blocks[a].assignedTag, blocks[b].assignedTag,
                        blocks[c].assignedTag}) = 3

\* tag is the first palette entry, in palette order, that is not in used.
IsFirstFree(tag, used) ==
    \E p \in DOMAIN POSITION_TAGS :
        /\ POSITION_TAGS[p] = tag
        /\ tag \notin used
        /\ \A q \in 1..(p - 1) : POSITION_TAGS[q] \in used

LastPaletteEntry == POSITION_TAGS[Len(POSITION_TAGS)]

\* The tags of the blocks in sweep order.
SweepTags == [p \in DOMAIN working |-> blocks[working[p]].assignedTag]

MutuallyOverlapping == \A a, b \in DOMAIN blocks : a # b => Overlap(a, b)

\* C2: a swept block that is not kept carries the first palette entry not in
\* use among the entries active at its step, and the last palette entry when
\* all five are in use; so two overlapping blocks swept into an empty list
\* get an2 then an8, and six mutually overlapping blocks get the five
\* palette tags in order and then an6.
C2_FirstFree ==
    /\ \A b \in SweptBlocks :
        ~blocks[b].keepExisting =>
            /\ ~PaletteExhaustedAt(b) => IsFirstFree(blocks[b].assignedTag, InUseAt(b))
            /\ PaletteExhaustedAt(b) => blocks[b].assignedTag = LastPaletteEntry
    /\ (AfterSweep /\ NoneKept /\ Len(blocks) = 2 /\ Overlap(1, 2)) =>
            SweepTags = <<Tag("2"), Tag("8")>>
    /\ (AfterSweep /\ NoneKept /\ Len(blocks) = 6 /\ MutuallyOverlapping) =>
            SweepTags = <<Tag("2"), Tag("8"), Tag("5"), Tag("4"), Tag("6"), Tag("6")>>

\* Six mutually overlapping blocks, none kept, have been resolved, the last
\* of them while all five palette tags were in use.
C2_Witness ==
    /\ pc = "done"
    /\ NoneKept
    /\ Len(blocks) = 6
    /\ MutuallyOverlapping
    /\ PaletteExhaustedAt(working[6])
    /\ blocks[working[6]].assignedTag = Tag("6")

\* C7: every swept block has an assigned tag, and the tag of a block that
\* is not kept is one of the five palette entries an2, an8, an5, an4, an6,
\* also for empty or negative windows and for more than five concurrent blocks.
C7_TagFromPalette ==
    \A b \in SweptBlocks :
        /\ blocks[b].assignedTag # NoTag
        /\ ~blocks[b].keepExisting =>
              blocks[b].assignedTag \in
                  {Tag("2"), Tag("8"), Tag("5"), Tag("4"), Tag("6")}

\* A block with a negative window and a block with an empty window have been
\* resolved next to a block that overlaps the negative one.
C7_Witness ==
    /\ pc = "done"
    /\ \E a, b, c \in DOMAIN blocks :
        /\ blocks[a].endMs < blocks[a].startMs
        /\ blocks[b].endMs = blocks[b].startMs
        /\ a # c /\ Overlap(a, c)
        /\ ~blocks[a].keepExisting
        /\ blocks[a].assignedTag = Tag("8")

\* The (endMs, tag) entry of block a.
EntryOf(a) == [endMs |-> blocks[a].endMs, tag |-> blocks[a].assignedTag]

\* The blocks swept before the block at position p of the sweep order that
\* end strictly after it starts, in sweep order.
StillShownAt(p) ==
    LET start == blocks[working[p]].startMs
        ShownLater(a) == blocks[a].endMs > start
    IN  SelectSeq(SubSeq(working, 1, p - 1), ShownLater)

\* C8: right after the eviction step for block B the active list holds one
\* entry for each block swept before B that ends strictly after B starts,
\* and nothing else; a block ending at T is gone when a block starting at T
\* is swept, and no block ever has two entries.
C8_ActiveAfterEviction ==
    /\ \A p \in 1..SweptCount :
        LET shown == StillShownAt(p)
        IN  /\ activeAt[working[p]] = [e \in DOMAIN shown |-> EntryOf(shown[e])]
            /\ \A e \in DOMAIN activeAt[working[p]] :
                  activeAt[working[p]][e].endMs # blocks[working[p]].startMs
    /\ SweptCount >= 1 =>
          active = Append(activeAt[working[SweptCount]], EntryOf(working[SweptCount]))

\* Block b was swept after a block ending exactly where b starts, which its
\* eviction step removed, and after a block that was still shown.
C8_Witness ==
    /\ AfterSweep
    /\ \E a, b, c \in DOMAIN blocks :
        /\ SweptBefore(a, b) /\ SweptBefore(c, b)
        /\ blocks[a].endMs = blocks[b].startMs
        /\ blocks[a].startMs < blocks[a].endMs
        /\ blocks[c].endMs > blocks[b].startMs
        /\ activeAt[b] = <<EntryOf(c)>>

\* ignoreExisting on and clean off.
KeepMode == options.ignoreExisting /\ ~options.clean

\* The line starts with the tag marker of digit d.
LeadsWith(line, d) == Len(line) >= 6 /\ SubSeq(line, 1, 6) = Marker(Tag(d))

HasLeadingMarker(line) == \E d \in Digits : LeadsWith(line, d)

AfterRewrite == pc \in {"serialize", "done"}

\* C4: with ignoreExisting on and clean off, a swept block whose first line
\* starts with the marker of tag t is kept with assignedTag t; its entry is
\* in the active list of every later block that starts before its endMs, and
\* such a block, when it draws from the palette while not all five palette
\* tags are in use, gets a tag other than t.
C4_KeptTagReserved ==
    KeepMode =>
        \A k1 \in 1..SweptCount : \A d \in Digits :
            LET kb    == working[k1]
                entry == [endMs |-> blocks[kb].endMs, tag |-> Tag(d)]
                later == {working[p] : p \in (k1 + 1)..SweptCount}
            IN  LeadsWith(parsed[kb].lines[1], d) =>
                    /\ blocks[kb].assignedTag = Tag(d)
                    /\ blocks[kb].keepExisting
                    /\ (\A b \in later : blocks[b].startMs < blocks[kb].endMs)
                        => \E e \in DOMAIN active : active[e] = entry
                    /\ \A b \in later :
                        blocks[b].startMs < blocks[kb].endMs =>
                            /\ \E e \in DOMAIN activeAt[b] : activeAt[b][e] = entry
                            /\ (~blocks[b].keepExisting /\ ~PaletteExhaustedAt(b))
                                  => blocks[b].assignedTag # Tag(d)

\* A block kept with an8 was still active when a later block drew from the
\* palette with an2 in use as well: the later block got an5.
C4_Witness ==
    /\ pc = "done"
    /\ KeepMode
    /\ \E kb, b \in DOMAIN blocks :
        /\ blocks[kb].keepExisting
        /\ blocks[kb].assignedTag = Tag("8")
        /\ SweptBefore(kb, b)
        /\ blocks[b].startMs < blocks[kb].endMs
        /\ ~blocks[b].keepExisting
        /\ InUseAt(b) = {Tag("2"), Tag("8")}
        /\ blocks[b].assignedTag = Tag("5")

PairwiseDisjoint == \A a, b \in DOMAIN blocks : a # b => ~Overlap(a, b)

AllTagged == \A b \in DOMAIN parsed : HasLeadingMarker(parsed[b].lines[1])

\* C5: with ignoreExisting on and clean off, assignSlots over pairwise
\* non-overlapping blocks whose first lines all start with a tag marker
\* leaves every text line as it was and assigns each block the tag it carried.
C5_TaggedRoundTrip ==
    (KeepMode /\ AfterRewrite /\ AllTagged /\ PairwiseDisjoint) =>
        \A b \in DOMAIN blocks :
            /\ blocks[b].lines = parsed[b].lines
            /\ \E d \in Digits :
                  LeadsWith(parsed[b].lines[1], d) /\ blocks[b].assignedTag = Tag(d)

\* Two tagged blocks that do not overlap went through assignSlots with
\* omitDefault on, one of them carrying the default tag an2.
C5_Witness ==
    /\ pc = "done"
    /\ KeepMode
    /\ options.omitDefault
    /\ Len(blocks) = 2
    /\ AllTagged
    /\ PairwiseDisjoint
    /\ \E b \in DOMAIN blocks : LeadsWith(blocks[b].lines[1], "2")

\* a comes before b in (startMs, endMs, originalOrder) order.
KeyBefore(a, b) ==
    \/ a.startMs < b.startMs
    \/ a.startMs = b.startMs /\ a.endMs < b.endMs
    \/ a.startMs = b.startMs /\ a.endMs = b.endMs /\ a.originalOrder < b.originalOrder

\* C6: serializeSrt emits every block once, in (startMs, endMs,
\* originalOrder) order, so blocks with the same window keep their input order.
C6_OutputOrder ==
    pc = "done" =>
        /\ Len(ordered) = Len(blocks)
        /\ \A b \in DOMAIN blocks : \E p \in DOMAIN ordered : ordered[p] = blocks[b]
        /\ \A p, q \in DOMAIN ordered : p < q => KeyBefore(ordered[p], ordered[q])

\* Two blocks with the same window were emitted, from a list that was not
\* in time order.
C6_Witness ==
    /\ pc = "done"
    /\ \E a, b, c \in DOMAIN blocks :
        /\ a < b
        /\ blocks[a].startMs = blocks[b].startMs
        /\ blocks[a].endMs = blocks[b].endMs
        /\ b < c
        /\ blocks[c].startMs < blocks[a].startMs
        /\ ordered = <<blocks[c], blocks[a], blocks[b]>>

\* The line without one leading tag marker, if it had one.
WithoutLeadingMarker(line) ==
    IF HasLeadingMarker(line) THEN SubSeq(line, 7, Len(line)) ELSE line

\* C10: the second loop rewrites only the first line of a block that is
\* not kept: to the old first line less one leading marker when omitDefault
\* is on and the tag is an2, else to the tag's marker followed by the old
\* first line less one leading marker; kept blocks and later lines stay.
C10_FirstLineRewrite ==
    AfterRewrite =>
        \A b \in DOMAIN blocks :
            LET old  == swept[b].lines
                new  == blocks[b].lines
                tag  == blocks[b].assignedTag
            IN  IF blocks[b].keepExisting THEN new = old
                ELSE /\ Len(new) = Len(old)
                     /\ \A l \in 2..Len(old) : new[l] = old[l]
                     /\ new[1] = IF options.omitDefault /\ tag = Tag("2")
                                 THEN WithoutLeadingMarker(old[1])
                                 ELSE Marker(tag) \o WithoutLeadingMarker(old[1])

\* A two-line block whose first line started with the an4 marker was
\* resolved to an8 and rewritten.
C10_Witness ==
    /\ pc = "done"
    /\ \E b \in DOMAIN blocks :
        /\ ~blocks[b].keepExisting
        /\ Len(swept[b].lines) = 2
        /\ LeadsWith(swept[b].lines[1], "4")
        /\ blocks[b].assignedTag = Tag("8")
        /\ blocks[b].lines[1] = Tagged("8")

\* A tag marker starts at position p of the line.
MarkerAt(line, p) ==
    /\ p + 5 <= Len(line)
    /\ \E d \in Digits : SubSeq(line, p, p + 5) = Marker(Tag(d))

\* C9 as stated: with clean on no line holds a tag marker when the tags
\* are chosen, no block is kept, every tag follows the first-free rule, and
\* after assignSlots the only marker in a block's text is that of its
\* assigned tag at the start of its first line, absent when omitDefault is
\* on and the tag is the default.
C9_Original ==
    options.clean =>
        /\ \A b \in SweptBlocks :
            /\ ~blocks[b].keepExisting
            /\ ~PaletteExhaustedAt(b) =>
                  IsFirstFree(blocks[b].assignedTag, InUseAt(b))
            /\ PaletteExhaustedAt(b) => blocks[b].assignedTag = LastPaletteEntry
        /\ AfterSweep =>
              \A b \in DOMAIN swept : \A l \in DOMAIN swept[b].lines :
                  \A p \in DOMAIN swept[b].lines[l] : ~MarkerAt(swept[b].lines[l], p)
        /\ AfterRewrite =>
              \A b \in DOMAIN blocks : \A l \in DOMAIN blocks[b].lines :
                  \A p \in DOMAIN blocks[b].lines[l] :
                      MarkerAt(blocks[b].lines[l], p) =>
                          /\ l = 1
                          /\ p = 1
                          /\ LeadsWith(blocks[b].lines[l], blocks[b].assignedTag[4])
                          /\ ~(options.omitDefault /\ blocks[b].assignedTag = DEFAULT_TAG)

\* C3 as stated: main exits only after every input of the batch has been
\* attempted, whatever failed on the way, a file without a valid block included.
C3_Original == mpc = "exited" => attempted = DOMAIN inputs

\* The Dialogue events the event loop of parseAss has been through.
ParsedEvents == IF source.kind = "ass" THEN 1..(pk - 1) ELSE {}

\* The event has valid timestamps and its text, once the override blocks are
\* stripped and the line-break markers expanded, is blank on every line.
BlankEvent(event) ==
    LET values == valuesOf(event)
    IN  /\ parseAssTimestampToMs(values.Start) # Null
        /\ parseAssTimestampToMs(values.End) # Null
        /\ AllBlank(splitLines(expandBreaks(cleanedOf(values.Text))))

\* A font name, font size or colour applies to the event, from its style or
\* from its overrides.
HasFontAttribute(event) ==
    LET values   == valuesOf(event)
        style    == styleOf(source.styles, values.Style)
        override == parseAssOverrides(values.Text)
    IN  \/ Truthy(Coalesce(override.fontName, style.Fontname))
        \/ Truthy(Coalesce(override.fontSize, style.Fontsize))
        \/ Truthy(Coalesce(override.color, assColorToHex(style.PrimaryColour)))

BlankParsed == {q \in ParsedEvents : BlankEvent(source.entries[q])}

FixedFormat(ts) ==
    /\ MatchesSrtTimestamp(ts)
    /\ NumberOf(SubSeq(ts, 4, 5)) < 60
    /\ NumberOf(SubSeq(ts, 7, 8)) < 60

\* The range line is written as the fixed-format rendering of the two times.
RenderedFrom(line, startMs, endMs) ==
    LET at    == CHOOSE p \in ArrowPositions(line) : TRUE
        start == SubSeq(line, 1, at - 2)
        end   == SubSeq(line, at + 4, Len(line))
    IN  /\ Cardinality(ArrowPositions(line)) = 1
        /\ line = start \o Arrow \o end
        /\ FixedFormat(start)
        /\ FixedFormat(end)
        /\ start = msToSrtTimestamp(startMs)
        /\ end = msToSrtTimestamp(endMs)
        /\ parseTimestampToMs(start) = startMs
        /\ parseTimestampToMs(end) = endMs

\* C12: for every block of parseSrt or parseAss, the range line serializeSrt
\* writes is the fixed-format rendering of the stored startMs and endMs, and
\* parses back to them.
C12_Original ==
    ppc = "done" =>
        LET out == orderedBlocks(result.blocks)
        IN  \A p \in DOMAIN rendered :
                RenderedFrom(rendered[p], out[p].startMs, out[p].endMs)

\* assignSlots has run twice with ignoreExisting off.
RanTwice == pc = "again" /\ ~options.ignoreExisting

\* The text holds a tag marker.
HasMarker(text) == stripAllTags(text) # text

\* The first line starts with two or more consecutive tag markers.
DoubleLeading(line) == MatchesLeadingTag(line) /\ MatchesLeadingTag(DropChars(line, 6))

\* The first run wrote no marker on block b: its tag is the default one and
\* omitDefault is on.
Omitted(b) == options.omitDefault /\ firstRun[b].assignedTag = DEFAULT_TAG

\* Line l of block b as the first run left it, without the marker the first
\* run wrote at its head.
Unmarked(b, l) ==
    IF l = 1 /\ ~Omitted(b) THEN DropChars(firstRun[b].lines[1], 6)
    ELSE firstRun[b].lines[l]

\* The first run left on block b a marker that a run removes: with clean on
\* a marker that the single pass of stripAllTags left in a line, with clean
\* off a leading marker on a first line that gets no marker.
Lossy(b) ==
    IF options.clean
    THEN \E l \in DOMAIN firstRun[b].lines : HasMarker(Unmarked(b, l))
    ELSE Omitted(b) /\ MatchesLeadingTag(firstRun[b].lines[1])

\* C13 as stated: with ignoreExisting off a second run leaves every block's
\* assignedTag and text lines exactly as the first run left them.
C13_Original ==
    RanTwice =>
        \A b \in DOMAIN blocks :
            /\ blocks[b].assignedTag = firstRun[b].assignedTag
            /\ blocks[b].lines = firstRun[b].lines

\* C13 amended: with ignoreExisting off a second run leaves every block's
\* assignedTag as the first run left it, and leaves a block's text lines as
\* the first run left them exactly when the first run left no marker that a
\* run removes; with clean off such a marker is left exactly on a block
\* without a written marker whose original first line started with two or
\* more consecutive markers.
C13_IdempotentUnlessLossy ==
    RanTwice =>
        \A b \in DOMAIN blocks :
            /\ blocks[b].assignedTag = firstRun[b].assignedTag
            /\ (blocks[b].lines = firstRun[b].lines) <=> ~Lossy(b)
            /\ ~options.clean =>
                   (Lossy(b) <=> Omitted(b) /\ DoubleLeading(parsed[b].lines[1]))

\* A second run has left alone a block whose first line started with two
\* consecutive markers and which the first run had rewritten.
C13_Witness ==
    /\ RanTwice
    /\ \E b \in DOMAIN blocks :
           /\ DoubleLeading(parsed[b].lines[1])
           /\ firstRun[b].lines # parsed[b].lines
           /\ ~Lossy(b)
           /\ blocks[b].lines = firstRun[b].lines

====
